---- MODULE Spec2Model ----
(***************************************************************************)
(* Model of loggery (src/src/lib.rs): a process-wide logger, a             *)
(* Lazy<Mutex<Logger>> singleton whose Logger holds an Option<File> opened *)
(* in append mode.  Threads call init_loggery and the macros infoy!,       *)
(* warny!, errory!, todoy!.                                                *)
(*                                                                         *)
(* A file is the sequence of the byte strings appended to it.  A File      *)
(* handle is the path it was opened on (no rename or unlink is modelled).  *)
(* std::fs::File is unbuffered: writeln! hands every formatted piece of    *)
(* the line to write_all, so a line reaches the file in pieces and an I/O  *)
(* failure can stop it after any of them.  Whether an open, a write, a     *)
(* flush or a handle duplication succeeds is an input of the step: each is *)
(* taken by its signature (io::Result), so each may fail.                  *)
(***************************************************************************)
EXTENDS Integers, Sequences, FiniteSets, TLC

\* bound: number of calls of the public entry points in one run
MaxCalls == 3

\* bound: number of operations on Logger values in one run
MaxLoggerOps == 4

Threads == {1, 2}
NoThread == 0

DEFAULT_FILENAME == "./.yash.log"
Paths == {DEFAULT_FILENAME, "p1", "p2"}
\* the file that exists before the process starts, and what it holds
PreExisting == {"p1"}
Existing == <<"existing\n">>

\* Option<File>::None
NoHandle == "none"

LogLevel == {"Error", "Warn", "Info", "Todo"}
\* the message each caller formats
Message(t) == IF t = 1 THEN "x" ELSE "y"

VARIABLES
    fs,        \* path -> content of the file (<<>> when absent)
    exists,    \* the paths at which a file exists
    lazy,      \* state of the Lazy cell: "uninit", "ready", "poisoned"
    file,      \* LOGGER's Logger.file: NoHandle or the path of its File
    owner,     \* the thread holding the Mutex, or NoThread
    poisoned,  \* the Mutex's poison flag
    pc,        \* thread -> position in its current call
    op,        \* thread -> the call it is in
    widx,      \* thread -> pieces of its line written so far
    tgt,       \* thread -> the File its log_content writes through
    logres,    \* thread -> result of Logger::log_content / Logger::init
    res,       \* thread -> outcome of the call: "ok", "err", "panic"
    pre,       \* thread -> content of tgt when the call took the lock
    failed,    \* thread -> an open, write or flush of this call failed
    attempts,  \* thread -> write attempts of this call
    opened,    \* the paths on which the process has called open
    ncalls,    \* calls started so far
    lastInit,  \* path of the last init_loggery that returned Ok
    expect,    \* path -> lines of the calls whose log_content returned Ok,
               \*         in the order the calls held the lock
    lg,        \* Logger value -> its state, its file and the offset of the
               \*         handle
    lcall      \* the last operation on a Logger value and its result

vars == <<fs, exists, lazy, file, owner, poisoned, pc, op, widx, tgt, logres,
          res, pre, failed, attempts, opened, ncalls, lastInit, expect,
          lg, lcall>>

\* the Logger values used directly, apart from the singleton
lvars == <<lg, lcall>>

----------------------------------------------------------------------------
(* Pure parts of the code *)

\* impl fmt::Display for LogLevel
Display(level) ==
    CASE level = "Error" -> "[ERROR]"
      [] level = "Warn"  -> "[WARN]"
      [] level = "Info"  -> "[INFO]"
      [] level = "Todo"  -> "[TODO]"

\* a format string that lost its line end
FormatPieces_NoNewline(level, message) == <<Display(level), " ", message>>

\* writeln!(file, "{} {}", log_level, message): the pieces handed to
\* write_all, in order
FormatPieces(level, message) == <<Display(level), " ", message, "\n">>

\* Logger::new
New == NoHandle

\* an open with truncate(true) in place of append(true)
OpenAppend_Truncate(content, present) == <<>>

\* OpenOptions::new().create(true).write(true).append(true).open(filename),
\* when it succeeds: the content the file has afterwards
OpenAppend(content, present) == IF present THEN content ELSE <<>>

\* a write through an append-mode handle lands at the end of the file
AppendWrite(content, piece) == Append(content, piece)

\* a handle opened without append(true): the write goes to the offset the
\* handle remembers, leaving a gap of zero bytes behind the end of file
HandleWrite_AtOffset(content, pos, piece) ==
    IF pos >= Len(content)
       THEN content \o [i \in 1..(pos - Len(content)) |-> "\\0"] \o <<piece>>
       ELSE [content EXCEPT ![pos + 1] = piece]

\* a write through a handle whose offset is pos: the File was opened with
\* append(true), so the offset is moved to the end of the file first
HandleWrite(content, pos, piece) == AppendWrite(content, piece)

\* an init that keeps the handle it had
LoggerInit_KeepOld(self, filename, openOk) ==
    IF self = NoHandle /\ openOk THEN filename ELSE self

\* an init that takes the path as its target whatever open returned
LoggerInit_Always(self, filename, openOk) == filename

\* an init that stores open(..).ok()
LoggerInit_ClearOnFail(self, filename, openOk) ==
    IF openOk THEN filename ELSE NoHandle

\* Logger::init: self.file after the call, the open having succeeded or not
LoggerInit(self, filename, openOk) == IF openOk THEN filename ELSE self

\* a clone that never carries the handle over
Clone_NoDup(self, dupOk) == NoHandle

\* Clone for Logger: file.try_clone().ok()
Clone(self, dupOk) == IF self # NoHandle /\ dupOk THEN self ELSE New

\* a lock that never blocks
CanLock_Always(o) == TRUE

\* Mutex::lock blocks until no thread holds the guard
CanLock(o) == o = NoThread

\* a todoy! that returns the result of the write like the other macros
CallOutcome_Propagate(kind, level, r) == r

\* macros that drop the result of the Logger method
CallOutcome_IgnoreErr(kind, level, r) ==
    IF kind = "log" /\ level = "Todo" THEN "panic" ELSE "ok"

\* The value a macro or init_loggery hands to its caller, given the result
\* of the Logger method it called: todoy! drops it and runs todo!()
CallOutcome(kind, level, r) ==
    IF kind = "log" /\ level = "Todo" THEN "panic" ELSE r

\* MutexGuard::drop poisons the Mutex when the thread is unwinding
PoisonOnDrop(p, outcome) == p \/ outcome = "panic"

\* a guard that is leaked when the call unwinds
OwnerAfter_LeakOnPanic(t, outcome) ==
    IF outcome = "panic" THEN t ELSE NoThread

\* The owner of the Mutex after the call of t has ended: the guard is a
\* local of the macro block or a temporary of init_loggery's statement, so
\* it is dropped on return, on the early return of ? and on unwinding
OwnerAfter(t, outcome) == NoThread

\* a log_content that does nothing without a handle
UnwrapResult_NoOp(f) == "ok"

\* log_content: self.file.as_ref().unwrap() panics on None
UnwrapResult(f) == IF f = NoHandle THEN "panic" ELSE "none"

----------------------------------------------------------------------------
(* Calls *)

\* the Logger values: one made by Logger::new(), and its clone
Loggers == {"orig", "copy"}

NoCall == [n |-> 0, kind |-> "none", prev |-> "none", who |-> "none",
           level |-> "none", r |-> "none", dup |-> FALSE, k |-> 0]

NoOp == [kind |-> "none", level |-> "none", msg |-> "", path |-> NoHandle,
         held |-> FALSE]

LogOps(t) == [kind : {"log"}, level : LogLevel, msg : {Message(t)},
              path : {NoHandle}, held : {FALSE}]
InitOps == [kind : {"init"}, level : {"none"}, msg : {""}, path : Paths,
            held : {FALSE}]

Line(t) == FormatPieces(op[t].level, op[t].msg)

Init ==
    /\ exists = PreExisting
    /\ fs = [p \in Paths |-> IF p \in exists THEN Existing ELSE <<>>]
    /\ lazy = "uninit"
    /\ file = NoHandle
    /\ owner = NoThread
    /\ poisoned = FALSE
    /\ pc = [t \in Threads |-> "idle"]
    /\ op = [t \in Threads |-> NoOp]
    /\ widx = [t \in Threads |-> 0]
    /\ tgt = [t \in Threads |-> NoHandle]
    /\ logres = [t \in Threads |-> "none"]
    /\ res = [t \in Threads |-> "none"]
    /\ pre = [t \in Threads |-> <<>>]
    /\ failed = [t \in Threads |-> FALSE]
    /\ attempts = [t \in Threads |-> 0]
    /\ opened = {}
    /\ ncalls = 0
    /\ lastInit = NoHandle
    /\ expect = fs
    /\ lg = [l \in Loggers |->
                [st |-> IF l = "orig" THEN "live" ELSE "absent",
                 file |-> New, pos |-> 0]]
    /\ lcall = NoCall

\* The call ends: the guard, if held, is dropped and the outcome is the
\* caller's
Finish(t, r, holdsLock) ==
    LET outcome == IF r = "panic" THEN "panic"
                   ELSE CallOutcome(op[t].kind, op[t].level, r)
    IN /\ logres' = [logres EXCEPT ![t] = r]
       /\ res' = [res EXCEPT ![t] = outcome]
       /\ pc' = [pc EXCEPT ![t] = "done"]
       /\ IF holdsLock
             THEN /\ owner' = OwnerAfter(t, outcome)
                  /\ poisoned' = PoisonOnDrop(poisoned, outcome)
             ELSE UNCHANGED <<owner, poisoned>>

\* A thread enters init_loggery(path) or one of the macros: the call o
\* starts with the thread's variables fresh.  A caller blocked in
\* Mutex::lock is a caller whose entry step is not yet enabled.
Enter(t, o) ==
    /\ pc[t] \in {"idle", "done"}
    /\ ncalls < MaxCalls
    /\ ncalls' = ncalls + 1
    /\ op' = [op EXCEPT ![t] =
                 [o EXCEPT !.held = (lazy = "ready" /\ file # NoHandle)]]
    /\ widx' = [widx EXCEPT ![t] = 0]
    /\ attempts' = [attempts EXCEPT ![t] = 0]
    /\ failed' = [failed EXCEPT ![t] = FALSE]

\* The results of a call that ends in its entry step
EndAtEntry(t, o, r, holdsLock) ==
    LET outcome == IF r = "panic" THEN "panic"
                   ELSE CallOutcome(o.kind, o.level, r)
    IN /\ logres' = [logres EXCEPT ![t] = r]
       /\ res' = [res EXCEPT ![t] = outcome]
       /\ pc' = [pc EXCEPT ![t] = "done"]
       /\ tgt' = [tgt EXCEPT ![t] = NoHandle]
       /\ pre' = [pre EXCEPT ![t] = <<>>]
       /\ owner' = IF holdsLock THEN OwnerAfter(t, outcome) ELSE owner
       /\ poisoned' = IF holdsLock THEN PoisonOnDrop(poisoned, outcome)
                      ELSE poisoned

\* First dereference of LOGGER: Mutex::new(Logger::default()).
\* Logger::default is new(), init(DEFAULT_FILENAME).unwrap(), clone(), and
\* the drop of the original (flush().unwrap()).  Here it succeeds; the
\* caller has not reached LOGGER.lock() yet.
ForceDefault(t) ==
    /\ pc[t] \in {"idle", "done"}
    /\ ncalls < MaxCalls
    /\ lazy = "uninit"
    /\ lazy' = "ready"
    /\ opened' = opened \cup {DEFAULT_FILENAME}
    /\ exists' = exists \cup {DEFAULT_FILENAME}
    /\ fs' = [fs EXCEPT ![DEFAULT_FILENAME] =
                 OpenAppend(@, DEFAULT_FILENAME \in exists)]
    /\ \E dupOk \in BOOLEAN :
          file' = Clone(LoggerInit(New, DEFAULT_FILENAME, TRUE), dupOk)
    /\ UNCHANGED <<owner, poisoned, pc, op, widx, tgt, logres, res, pre,
                   failed, attempts, ncalls, lastInit, expect,
                   lvars>>

\* First dereference of LOGGER where the open of the default path fails
\* and unwrap panics: the Lazy cell is left poisoned
ForceDefaultOpenFails(t) ==
    /\ lazy = "uninit"
    /\ lazy' = "poisoned"
    /\ opened' = opened \cup {DEFAULT_FILENAME}
    /\ \E o \in LogOps(t) \cup InitOps :
          /\ Enter(t, o)
          /\ EndAtEntry(t, o, "panic", FALSE)
    /\ UNCHANGED <<fs, exists, file, lastInit, expect,
                   lvars>>

\* First dereference of LOGGER where the flush in Logger::drop fails and
\* unwrap panics, the default file being open already
ForceDefaultDropFails(t) ==
    /\ lazy = "uninit"
    /\ lazy' = "poisoned"
    /\ opened' = opened \cup {DEFAULT_FILENAME}
    /\ exists' = exists \cup {DEFAULT_FILENAME}
    /\ fs' = [fs EXCEPT ![DEFAULT_FILENAME] =
                 OpenAppend(@, DEFAULT_FILENAME \in exists)]
    /\ \E o \in LogOps(t) \cup InitOps :
          /\ Enter(t, o)
          /\ EndAtEntry(t, o, "panic", FALSE)
    /\ UNCHANGED <<file, lastInit, expect,
                   lvars>>

\* LOGGER is dereferenced after its initializer panicked
ForcePoisoned(t) ==
    /\ lazy = "poisoned"
    /\ \E o \in LogOps(t) \cup InitOps :
          /\ Enter(t, o)
          /\ EndAtEntry(t, o, "panic", FALSE)
    /\ UNCHANGED <<fs, exists, lazy, file, opened, lastInit, expect,
                   lvars>>

\* LOGGER.lock().unwrap() on a poisoned Mutex: the guard inside the error
\* is dropped and the thread panics
LockPoisoned(t) ==
    /\ lazy = "ready"
    /\ CanLock(owner)
    /\ poisoned
    /\ \E o \in LogOps(t) \cup InitOps :
          /\ Enter(t, o)
          /\ EndAtEntry(t, o, "panic", FALSE)
    /\ UNCHANGED <<fs, exists, lazy, file, opened, lastInit, expect,
                   lvars>>

\* LOGGER.lock().unwrap() in init_loggery
LockInit(t) ==
    /\ lazy = "ready"
    /\ CanLock(owner)
    /\ ~poisoned
    /\ \E o \in InitOps : Enter(t, o)
    /\ owner' = t
    /\ pc' = [pc EXCEPT ![t] = "open"]
    /\ tgt' = [tgt EXCEPT ![t] = NoHandle]
    /\ pre' = [pre EXCEPT ![t] = <<>>]
    /\ logres' = [logres EXCEPT ![t] = "none"]
    /\ res' = [res EXCEPT ![t] = "none"]
    /\ UNCHANGED <<fs, exists, lazy, file, poisoned, opened, lastInit,
                   expect,
                   lvars>>

\* LOGGER.lock().unwrap() in a macro, then log_content's
\* self.file.as_ref().unwrap() with a handle present
LockLog(t) ==
    /\ lazy = "ready"
    /\ CanLock(owner)
    /\ ~poisoned
    /\ file # NoHandle
    /\ \E o \in LogOps(t) : Enter(t, o)
    /\ owner' = t
    /\ pc' = [pc EXCEPT ![t] = "write"]
    /\ tgt' = [tgt EXCEPT ![t] = file]
    /\ pre' = [pre EXCEPT ![t] = fs[file]]
    /\ logres' = [logres EXCEPT ![t] = "none"]
    /\ res' = [res EXCEPT ![t] = "none"]
    /\ UNCHANGED <<fs, exists, lazy, file, poisoned, opened, lastInit,
                   expect,
                   lvars>>

\* The same with no handle: unwrap panics while the guard is held
LockLogNoHandle(t) ==
    /\ lazy = "ready"
    /\ CanLock(owner)
    /\ ~poisoned
    /\ file = NoHandle
    /\ \E o \in LogOps(t) :
          /\ Enter(t, o)
          /\ EndAtEntry(t, o, UnwrapResult(file), TRUE)
    /\ UNCHANGED <<fs, exists, lazy, file, opened, lastInit, expect,
                   lvars>>

\* Logger::init under the guard, then the guard is dropped
InitOpen(t) ==
    /\ pc[t] = "open"
    /\ opened' = opened \cup {op[t].path}
    /\ \E openOk \in BOOLEAN :
          /\ file' = LoggerInit(file, op[t].path, openOk)
          /\ IF openOk
                THEN /\ exists' = exists \cup {op[t].path}
                     /\ fs' = [fs EXCEPT ![op[t].path] =
                                  OpenAppend(@, op[t].path \in exists)]
                     /\ lastInit' = op[t].path
                     /\ UNCHANGED failed
                     /\ Finish(t, "ok", TRUE)
                ELSE /\ failed' = [failed EXCEPT ![t] = TRUE]
                     /\ UNCHANGED <<fs, exists, lastInit>>
                     /\ Finish(t, "err", TRUE)
    /\ UNCHANGED <<lazy, op, widx, tgt, pre, attempts, ncalls, expect,
                   lvars>>

\* One write_all of writeln!: the next piece of the line
WritePiece(t) ==
    /\ pc[t] = "write"
    /\ attempts' = [attempts EXCEPT ![t] = @ + 1]
    /\ \E writeOk \in BOOLEAN :
          IF writeOk
             THEN /\ fs' = [fs EXCEPT ![tgt[t]] =
                               AppendWrite(@, Line(t)[widx[t] + 1])]
                  /\ widx' = [widx EXCEPT ![t] = @ + 1]
                  /\ pc' = [pc EXCEPT ![t] =
                               IF widx[t] + 1 = Len(Line(t))
                                  THEN "flush" ELSE "write"]
                  /\ UNCHANGED <<owner, poisoned, logres, res, failed>>
             ELSE /\ failed' = [failed EXCEPT ![t] = TRUE]
                  /\ Finish(t, "err", TRUE)
                  /\ UNCHANGED <<fs, widx>>
    /\ UNCHANGED <<exists, lazy, file, op, tgt, pre, opened, ncalls, lastInit,
                   expect,
                   lvars>>

\* file.flush()?, then the macro's tail and the drop of the guard
Flush(t) ==
    /\ pc[t] = "flush"
    /\ \E flushOk \in BOOLEAN :
          IF flushOk
             THEN /\ expect' = [expect EXCEPT ![tgt[t]] = @ \o Line(t)]
                  /\ UNCHANGED failed
                  /\ Finish(t, "ok", TRUE)
             ELSE /\ failed' = [failed EXCEPT ![t] = TRUE]
                  /\ UNCHANGED expect
                  /\ Finish(t, "err", TRUE)
    /\ UNCHANGED <<fs, exists, lazy, file, op, widx, tgt, pre, attempts,
                   opened, ncalls, lastInit,
                   lvars>>

Next ==
    \/ \E t \in Threads : ForceDefault(t)
    \/ \E t \in Threads : ForceDefaultOpenFails(t)
    \/ \E t \in Threads : ForceDefaultDropFails(t)
    \/ \E t \in Threads : ForcePoisoned(t)
    \/ \E t \in Threads : LockPoisoned(t)
    \/ \E t \in Threads : LockInit(t)
    \/ \E t \in Threads : LockLog(t)
    \/ \E t \in Threads : LockLogNoHandle(t)
    \/ \E t \in Threads : InitOpen(t)
    \/ \E t \in Threads : WritePiece(t)
    \/ \E t \in Threads : Flush(t)

Spec == Init /\ [][Next]_vars

----------------------------------------------------------------------------
(* Message arguments that log *)

\* A macro whose message arguments call an entry point of the crate: the
\* macro takes the guard first (let logger = LOGGER.lock().unwrap()) and
\* evaluates format!(..) afterwards, so the inner call reaches
\* LOGGER.lock() on the thread that holds the guard.
LockLogNested(t) ==
    /\ lazy = "ready"
    /\ CanLock(owner)
    /\ ~poisoned
    /\ \E o \in LogOps(t) : Enter(t, o)
    /\ owner' = t
    /\ pc' = [pc EXCEPT ![t] = "relock"]
    /\ tgt' = [tgt EXCEPT ![t] = NoHandle]
    /\ pre' = [pre EXCEPT ![t] = <<>>]
    /\ logres' = [logres EXCEPT ![t] = "none"]
    /\ res' = [res EXCEPT ![t] = "none"]
    /\ UNCHANGED <<fs, exists, lazy, file, poisoned, opened, lastInit,
                   expect,
                   lvars>>

\* Mutex::lock on the thread that holds the guard never returns: it blocks
\* for ever (no step of the thread) or it panics, and then the outer call
\* unwinds with its guard
RelockPanics(t) ==
    /\ pc[t] = "relock"
    /\ Finish(t, "panic", TRUE)
    /\ UNCHANGED <<fs, exists, lazy, file, op, widx, tgt, pre, failed,
                   attempts, opened, ncalls, lastInit, expect,
                   lvars>>

NextNested ==
    \/ Next
    \/ \E t \in Threads : LockLogNested(t)
    \/ \E t \in Threads : RelockPanics(t)

SpecNested == Init /\ [][NextNested]_vars

----------------------------------------------------------------------------
(* Logger values used directly *)

\* the fields of the singleton and of its calls, which no operation on a
\* Logger value touches
svars == <<lazy, file, owner, poisoned, pc, op, widx, tgt, logres, res, pre,
           failed, attempts, opened, ncalls, lastInit, expect>>

\* the file after the first k pieces went through a handle whose offset was
\* pos when the call began; each write leaves the offset behind its piece
RECURSIVE WritePieces(_, _, _, _)
WritePieces(content, pos, pieces, k) ==
    IF k = 0 THEN content
    ELSE LET c == WritePieces(content, pos, pieces, k - 1)
         IN  HandleWrite(c, IF k = 1 THEN pos ELSE Len(c), pieces[k])

\* what an operation on a Logger value leaves in lcall
Called(kind, l, level, r, dup, k) ==
    lcall' = [n |-> lcall.n + 1, kind |-> kind, prev |-> lcall.kind,
              who |-> l, level |-> level, r |-> r, dup |-> dup, k |-> k]

\* Logger::init on a Logger value
LoggerInitCall(l) ==
    /\ lcall.n < MaxLoggerOps
    /\ lg[l].st = "live"
    /\ \E p \in Paths, openOk \in BOOLEAN :
          /\ lg' = [lg EXCEPT ![l].file = LoggerInit(lg[l].file, p, openOk),
                              ![l].pos = IF openOk THEN 0 ELSE lg[l].pos]
          /\ fs' = IF openOk THEN [fs EXCEPT ![p] = OpenAppend(fs[p], p \in exists)]
                             ELSE fs
          /\ exists' = IF openOk THEN exists \cup {p} ELSE exists
          /\ Called("init", l, "none", IF openOk THEN "ok" ELSE "err", FALSE, 0)
    /\ UNCHANGED svars

\* Logger::clone of the first Logger value
LoggerClone ==
    /\ lcall.n < MaxLoggerOps
    /\ lg["orig"].st = "live"
    /\ lg["copy"].st = "absent"
    /\ \E dupOk \in BOOLEAN :
          /\ lg' = [lg EXCEPT !["copy"] =
                       [st |-> "live",
                        file |-> Clone(lg["orig"].file, dupOk),
                        pos |-> lg["orig"].pos]]
          /\ Called("clone", "orig", "none", "ok", dupOk, 0)
    /\ UNCHANGED <<fs, exists, svars>>

\* Logger::log_content on a Logger value that holds a handle: the first k
\* pieces of the line are written, then the flush runs
LoggerLog(l) ==
    /\ lcall.n < MaxLoggerOps
    /\ lg[l].st = "live"
    /\ UnwrapResult(lg[l].file) # "panic"
    /\ \E level \in LogLevel, flushOk \in BOOLEAN :
          LET pieces == FormatPieces(level, Message(1))
              p == lg[l].file
          IN  \E k \in 0..Len(pieces) :
                 /\ fs' = [fs EXCEPT ![p] = WritePieces(fs[p], lg[l].pos, pieces, k)]
                 /\ lg' = [lg EXCEPT ![l].pos = Len(fs'[p])]
                 /\ Called("log", l, level,
                           IF k = Len(pieces) /\ flushOk THEN "ok" ELSE "err",
                           FALSE, k)
    /\ UNCHANGED <<exists, svars>>

\* Logger::log_content on a Logger value without a handle
LoggerLogNoHandle(l) ==
    /\ lcall.n < MaxLoggerOps
    /\ lg[l].st = "live"
    /\ UnwrapResult(lg[l].file) = "panic"
    /\ \E level \in LogLevel :
          Called("log", l, level, UnwrapResult(lg[l].file), FALSE, 0)
    /\ UNCHANGED <<lg, fs, exists, svars>>

\* Drop::drop of a Logger value
LoggerDrop(l) ==
    /\ lcall.n < MaxLoggerOps
    /\ lg[l].st = "live"
    /\ \E flushOk \in BOOLEAN :
          /\ lg' = [lg EXCEPT ![l].st = "dropped", ![l].file = NoHandle]
          /\ Called("drop", l, "none",
                    IF lg[l].file # NoHandle /\ ~flushOk THEN "panic" ELSE "ok",
                    FALSE, 0)
    /\ UNCHANGED <<fs, exists, svars>>

\* tests::clear_file: another handle creates the file or truncates it
ClearFile(p) ==
    /\ lcall.n < MaxLoggerOps
    /\ \E createOk \in BOOLEAN :
          /\ fs' = IF createOk THEN [fs EXCEPT ![p] = <<>>] ELSE fs
          /\ exists' = IF createOk THEN exists \cup {p} ELSE exists
          /\ Called("clear", "none", "none", IF createOk THEN "ok" ELSE "err",
                    FALSE, 0)
    /\ UNCHANGED <<lg, svars>>

NextLogger ==
    \/ \E l \in Loggers : LoggerInitCall(l)
    \/ LoggerClone
    \/ \E l \in Loggers : LoggerLog(l)
    \/ \E l \in Loggers : LoggerLogNoHandle(l)
    \/ \E l \in Loggers : LoggerDrop(l)
    \/ \E p \in Paths : ClearFile(p)

SpecLogger == Init /\ [][NextLogger]_vars

----------------------------------------------------------------------------
(* Properties *)

Leveled(t) == op[t].kind = "log" /\ op[t].level # "Todo"
IsTodo(t) == op[t].kind = "log" /\ op[t].level = "Todo"
IsInit(t) == op[t].kind = "init"
InFlight == {t \in Threads : pc[t] \in {"open", "write", "flush"}}

\* the tag the line format prescribes for each level
TagText == [Error |-> "[ERROR]", Warn |-> "[WARN]", Info |-> "[INFO]",
            Todo |-> "[TODO]"]

\* C1: when log_content(L, m) returns Ok, for any of the four levels, the
\* target file holds at that moment what it held when the call took the
\* lock followed by exactly tag(L), " ", m, "\n", and no other file changed
\* in the returning step.
Thm_C1 ==
    [][\A t \in Threads :
          (pc[t] = "flush" /\ pc'[t] = "done" /\ logres'[t] = "ok")
             => /\ fs'[tgt[t]] =
                      pre[t] \o <<TagText[op[t].level], " ", op[t].msg, "\n">>
                /\ \A p \in Paths \ {tgt[t]} : fs'[p] = fs[p]]_vars

Wit_C1 ==
    \E t \in Threads :
       /\ pc[t] = "done" /\ op[t].kind = "log" /\ logres[t] = "ok"
       /\ op[t].level = "Error"
       /\ Len(pre[t]) > 0

\* C2 (as claimed): whenever no call is in flight, every file holds exactly
\* the complete lines of the calls whose write and flush succeeded, in the
\* order in which the calls held the lock.
CE_C2 == (owner = NoThread) => \A p \in Paths : fs[p] = expect[p]

\* C3: once an init_loggery has returned Ok, every write step appends its
\* piece to the path of the last init_loggery that returned Ok, and no
\* other file changes: the content of an earlier target stays as it was.
Thm_C3 ==
    [][lastInit # NoHandle =>
          /\ \A p \in Paths \ {lastInit} : fs'[p] = fs[p]
          /\ \A t \in Threads :
                (pc[t] = "write" /\ widx'[t] = widx[t] + 1)
                   => fs'[lastInit] =
                         Append(fs[lastInit],
                                <<TagText[op[t].level], " ", op[t].msg,
                                  "\n">>[widx'[t]])]_vars

Wit_C3 ==
    /\ lastInit = "p2"
    /\ Len(fs[DEFAULT_FILENAME]) >= 4
    /\ \E t \in Threads :
          pc[t] = "done" /\ op[t].kind = "log" /\ logres[t] = "ok"
          /\ tgt[t] = "p2" /\ Len(fs["p2"]) = 4

\* C4: a step of init (in init_loggery or in the default construction)
\* leaves the content of every file that exists as it was, and a file it
\* creates is empty; this also holds when the path is the current target.
Thm_C4 ==
    [][/\ \A p \in exists' \ exists : fs'[p] = <<>>
       /\ exists \subseteq exists'
       /\ \A t \in Threads :
             (pc[t] = "open" /\ pc'[t] = "done")
                => \A p \in exists : fs'[p] = fs[p]
       /\ (lazy = "uninit") => \A p \in exists : fs'[p] = fs[p]]_vars

\* init on the file holding "existing\n", then warn("y")
Wit_C4 ==
    /\ lastInit = "p1"
    /\ fs["p1"] = <<"existing\n", "[WARN]", " ", "y", "\n">>
    /\ \E t \in Threads : pc[t] = "done" /\ IsInit(t) /\ op[t].path = "p1"
                          /\ res[t] = "ok" /\ op[t].held

\* C5: no todoy! call returns: its outcome is never Ok or Err, and a
\* finished todoy! has panicked, whether its write succeeded or failed.
Thm_C5 ==
    \A t \in Threads :
       IsTodo(t) => /\ res[t] \in {"none", "panic"}
                    /\ pc[t] = "done" => res[t] = "panic"

Wit_C5 ==
    \E t \in Threads :
       /\ IsTodo(t) /\ pc[t] = "done" /\ res[t] = "panic"
       /\ failed[t] /\ logres[t] = "err"

\* C6 (as claimed): a call of info, warn, error or init_loggery made while
\* the singleton holds a handle never ends in a panic.
CE_C6 ==
    \A t \in Threads :
       (pc[t] = "done" /\ op[t].held /\ (Leveled(t) \/ IsInit(t)))
          => res[t] # "panic"

\* C7: a call of info, warn, error or init_loggery whose open (the open of
\* its path by Logger::init), write or flush failed has ended at once with
\* Err as its outcome, no such call returns Ok after a failure, and no
\* piece of a line is written twice.  (The open of the default path by the
\* Lazy initializer belongs to the default construction, not to the call's
\* init; its failure panics.)
Thm_C7 ==
    \A t \in Threads :
       (Leveled(t) \/ IsInit(t)) =>
          /\ failed[t] => (pc[t] = "done" /\ res[t] = "err")
          /\ res[t] = "ok" => ~failed[t]
          /\ attempts[t] <= widx[t] + 1
          /\ Leveled(t) =>
                widx[t] <= Len(<<TagText[op[t].level], " ", op[t].msg, "\n">>)
          /\ IsInit(t) => attempts[t] = 0

Wit_C7 ==
    /\ \E t \in Threads :
          Leveled(t) /\ pc[t] = "done" /\ failed[t] /\ res[t] = "err"
          /\ widx[t] = 2
    /\ \E t \in Threads :
          IsInit(t) /\ pc[t] = "done" /\ failed[t] /\ res[t] = "err"

\* C8 (as claimed): when init_loggery(p), p not the default path, is the
\* first call of the process, p is the only path opened, the default file
\* is not created, and the call does not panic.
CE_C8 ==
    \A t \in Threads :
       (ncalls = 1 /\ pc[t] = "done" /\ IsInit(t)
        /\ op[t].path # DEFAULT_FILENAME)
          => /\ opened = {op[t].path}
             /\ DEFAULT_FILENAME \notin exists
             /\ res[t] # "panic"

\* C9: at most one thread is between taking the lock and dropping it, and
\* it is the owner of the lock; while a log call is writing or flushing,
\* the singleton's handle is the one the call writes through, and what the
\* call has written so far lies in that one file, right after what the
\* file held when the call took the lock.
Thm_C9 ==
    /\ Cardinality(InFlight) <= 1
    /\ \A t \in InFlight : owner = t
    /\ \A t \in Threads :
          pc[t] \in {"write", "flush"}
             => /\ file = tgt[t]
                /\ fs[tgt[t]] =
                      pre[t] \o SubSeq(<<TagText[op[t].level], " ", op[t].msg,
                                         "\n">>, 1, widx[t])

Wit_C9 ==
    \E t \in Threads, u \in Threads :
       /\ t # u
       /\ pc[t] = "flush" /\ widx[t] = 4
       /\ pc[u] = "done" /\ IsInit(u) /\ res[u] = "ok"
       /\ tgt[t] = op[u].path

\* C10: a Logger that holds a handle holds one in the next state, on a file
\* that exists, and the handle changes only by an init that returned Ok
\* (in init_loggery, or in the default construction from no handle).
Thm_C10 ==
    [][/\ file # NoHandle => file' # NoHandle
       /\ file' # NoHandle => file' \in exists'
       /\ file' # file =>
             \/ \E t \in Threads :
                   /\ pc[t] = "open" /\ pc'[t] = "done"
                   /\ logres'[t] = "ok" /\ file' = op[t].path
             \/ lazy = "uninit" /\ lazy' = "ready" /\ file = NoHandle
                /\ file' = DEFAULT_FILENAME]_vars

Wit_C10 ==
    /\ file = "p1"
    /\ \E t \in Threads :
          IsInit(t) /\ pc[t] = "done" /\ res[t] = "err" /\ op[t].held
          /\ op[t].path = "p2"
    /\ \E t \in Threads :
          Leveled(t) /\ pc[t] = "done" /\ res[t] = "err"

\* C11 (as claimed): after the default construction, and as long as no
\* init_loggery has returned Ok, the singleton holds a handle on the default
\* path.
CE_C11 ==
    (lazy = "ready" /\ lastInit = NoHandle) => file = DEFAULT_FILENAME

\* C12: a log call that finds the singleton's Logger without a handle has
\* ended in a panic raised by the log operation itself, with no write
\* attempted, and no file has a byte it did not have at the start.
Thm_C12 ==
    \A t \in Threads :
       (op[t].kind = "log" /\ lazy = "ready" /\ file = NoHandle)
          => /\ pc[t] = "done"
             /\ res[t] = "panic" /\ logres[t] = "panic"
             /\ attempts[t] = 0 /\ widx[t] = 0
             /\ fs = [p \in Paths |->
                         IF p \in PreExisting THEN Existing ELSE <<>>]

Wit_C12 ==
    /\ lazy = "ready" /\ file = NoHandle /\ ncalls = 1
    /\ \E t \in Threads :
          pc[t] = "done" /\ Leveled(t) /\ res[t] = "panic"

\* C15: the step in which init_loggery fails changes neither the
\* singleton's handle nor any file nor the Lazy cell nor the poison flag,
\* and it frees the lock; a log call in flight writes through the handle
\* the singleton holds.
Thm_C15 ==
    [][/\ \A t \in Threads :
             (pc[t] = "open" /\ pc'[t] = "done" /\ logres'[t] = "err")
                => /\ file' = file /\ fs' = fs /\ exists' = exists
                   /\ lazy' = lazy /\ poisoned' = poisoned
                   /\ lastInit' = lastInit /\ owner' = NoThread
       /\ \A t \in Threads :
             pc[t] \in {"write", "flush"} => tgt[t] = file]_vars

\* a failed init_loggery("p2"), then a log call writing to the old target
Wit_C15 ==
    \E t \in Threads, u \in Threads :
       /\ IsInit(t) /\ pc[t] = "done" /\ res[t] = "err" /\ op[t].held
       /\ op[t].path = "p2"
       /\ pc[u] = "write" /\ widx[u] = 2 /\ tgt[u] = DEFAULT_FILENAME
       /\ file = DEFAULT_FILENAME

\* C16: the lock is held only by a call that is between taking it and its
\* end, never by a thread whose call has ended (by Ok, by Err or by a
\* panic); the holder always has a step to take, and a step that keeps the
\* lock writes the next piece of the line, so the holder ends after at most
\* as many steps as a line has pieces, plus the flush.
Thm_C16 ==
    /\ [](/\ owner # NoThread => pc[owner] \in {"open", "write", "flush"}
          /\ \A t \in Threads : pc[t] \in {"idle", "done"} => owner # t
          /\ \A t \in Threads :
                owner = t =>
                   ENABLED (InitOpen(t) \/ WritePiece(t) \/ Flush(t)))
    /\ [][\A t \in Threads :
             (owner = t /\ owner' = t)
                => /\ widx'[t] = widx[t] + 1
                   /\ widx'[t] <= Len(<<TagText[op[t].level], " ", op[t].msg,
                                        "\n">>)]_vars

\* a todoy! has panicked, a call has returned Err, and the lock is free
Wit_C16 ==
    /\ owner = NoThread
    /\ \E t \in Threads, u \in Threads :
          /\ IsTodo(t) /\ pc[t] = "done" /\ res[t] = "panic"
          /\ logres[t] = "ok"
          /\ pc[u] = "done" /\ res[u] = "err"

\* C17 (as claimed): the call made by the message arguments of a macro can
\* take the lock: whenever a thread has reached the inner LOGGER.lock(),
\* the lock is free for it.
CE_C17 == \A t \in Threads : pc[t] = "relock" => CanLock(owner)

\* C13: Logger::clone leaves the original as it was and touches no file.  A
\* copy of a Logger without a handle has no handle.  A copy of a Logger with
\* a handle has a handle on the same file when the duplication succeeded,
\* and no handle, with no error reported, when it failed.  A line logged
\* through either copy changes the one file that copy's handle is on and no
\* other, and dropping one copy leaves the other as it was.
Thm_C13 ==
    [][/\ (lcall'.n # lcall.n /\ lcall'.kind = "clone") =>
             /\ lg'["orig"] = lg["orig"]
             /\ fs' = fs /\ exists' = exists
             /\ lcall'.r = "ok"
             /\ lg'["copy"].st = "live"
             /\ lg["orig"].file = NoHandle => lg'["copy"].file = NoHandle
             /\ (lg["orig"].file # NoHandle /\ lcall'.dup) =>
                   lg'["copy"].file = lg["orig"].file
             /\ (lg["orig"].file # NoHandle /\ ~lcall'.dup) =>
                   lg'["copy"].file = NoHandle
       /\ \A l \in Loggers :
             (lcall'.n # lcall.n /\ lcall'.kind = "log" /\ lcall'.who = l
                 /\ lg[l].file # NoHandle) =>
                /\ \A q \in Paths \ {lg[l].file} : fs'[q] = fs[q]
                /\ lcall'.r = "ok" =>
                      fs'[lg[l].file] = fs[lg[l].file] \o
                         <<TagText[lcall'.level], " ", Message(1), "\n">>
                /\ \A m \in Loggers \ {l} : lg'[m].file = lg[m].file
       /\ \A l \in Loggers :
             (lcall'.n # lcall.n /\ lcall'.kind = "drop" /\ lcall'.who = l) =>
                /\ \A m \in Loggers \ {l} : lg'[m] = lg[m]
                /\ fs' = fs
      ]_vars

\* the original was given a handle on "p1" and cloned, the original was
\* dropped, and a line logged through the copy was appended to "p1"
Wit_C13 ==
    /\ lcall.n = MaxLoggerOps /\ lcall.kind = "log" /\ lcall.who = "copy"
    /\ lcall.prev = "drop" /\ lcall.r = "ok"
    /\ lg["orig"].st = "dropped"
    /\ lg["copy"].file = "p1"
    /\ fs["p1"] = Existing \o <<TagText[lcall.level], " ", Message(1), "\n">>

\* C14: a log call through a handle leaves every byte the file held in
\* place and puts the pieces it wrote right behind them, whatever offset
\* the handle had; no other file changes.  When the file was empty at the
\* call, as after another handle truncated it, and the call returns Ok, the
\* file holds exactly the one new line.
Thm_C14 ==
    [][\A l \in Loggers :
          (lcall'.n # lcall.n /\ lcall'.kind = "log" /\ lcall'.who = l
              /\ lg[l].file # NoHandle) =>
             LET p == lg[l].file
                 line == <<TagText[lcall'.level], " ", Message(1), "\n">>
             IN  /\ Len(fs'[p]) = Len(fs[p]) + lcall'.k
                 /\ SubSeq(fs'[p], 1, Len(fs[p])) = fs[p]
                 /\ SubSeq(fs'[p], Len(fs[p]) + 1, Len(fs'[p])) =
                       SubSeq(line, 1, lcall'.k)
                 /\ lcall'.r = "ok" => lcall'.k = Len(line)
                 /\ (lcall'.r = "ok" /\ fs[p] = <<>>) => fs'[p] = line
                 /\ \A q \in Paths \ {p} : fs'[q] = fs[q]
      ]_vars

\* the Logger was given a handle on "p1", which held a line, another handle
\* truncated "p1" right before the log call, and the call returned Ok:
\* "p1" holds the one new line
Wit_C14 ==
    /\ lcall.kind = "log" /\ lcall.prev = "clear" /\ lcall.r = "ok"
    /\ lcall.who = "orig" /\ lg["orig"].file = "p1"
    /\ lg["copy"].st = "absent"
    /\ fs["p1"] = <<TagText[lcall.level], " ", Message(1), "\n">>
    /\ Len(Existing) > 0

====
